---- MODULE Spec2Model ----
(***************************************************************************)
(* Registry engine of the feed service: packages, versions, artifact files *)
(* and the request handlers that mutate them.                              *)
(*                                                                         *)
(* All handlers share ONE sqlite3 connection (Database.db).  Every         *)
(* `await db.run/get/all` is one atomic statement on that connection; the  *)
(* synchronous code that follows it (fs.unlinkSync, fs.existsSync, building*)
(* the next statement) runs in the same step.  Between two awaits of one   *)
(* request any other request may run.  BEGIN/COMMIT/ROLLBACK act on the    *)
(* connection, not on the request that issued them.                        *)
(***************************************************************************)
EXTENDS Integers, FiniteSets, Sequences, TLC

\* ---------------------------------------------------------------- bounds
NumProcs == 2
MaxTok == 3
RaceMaxTok == 2
RegMaxTok == 4
MaxFeedPkgs == 101
MaxPrivatePkgs == 2
MaxFeedVers == 3

Procs == 1..NumProcs
Tokens == 1..MaxTok
PkgNames == {"a", "b"}
VerStrings == {"1.0.0", "1.1.0"}
Users == {"alice", "admin"}

\* request shapes of POST /upload that matter to the fresh detection
Shape(q, b, h, urlText, cli, referer) ==
  [q |-> q, b |-> b, h |-> h, urlText |-> urlText, cli |-> cli, referer |-> referer]
PlainShape == Shape(FALSE, FALSE, FALSE, FALSE, FALSE, FALSE)
QueryFreshShape == Shape(TRUE, FALSE, FALSE, TRUE, FALSE, FALSE)
CliShape == Shape(FALSE, FALSE, FALSE, FALSE, TRUE, FALSE)
AllShapes == [q : BOOLEAN, b : BOOLEAN, h : BOOLEAN, urlText : BOOLEAN, cli : BOOLEAN,
              referer : BOOLEAN]

\* inputs the requests of a run are drawn from
FullScope ==
  [users |-> Users, names |-> PkgNames, vers |-> VerStrings, hasFile |-> BOOLEAN,
   dep |-> {TRUE}, ticks |-> {1}, extractOk |-> BOOLEAN, shapes |-> AllShapes,
   pub |-> {TRUE}, recordOk |-> {TRUE}, maxTok |-> MaxTok, scratch |-> FALSE]
PkgsScope ==
  [users |-> {"admin"}, names |-> PkgNames, vers |-> {"1.0.0"}, hasFile |-> {TRUE},
   dep |-> {TRUE}, ticks |-> {1}, extractOk |-> {TRUE}, shapes |-> {PlainShape},
   pub |-> {TRUE}, recordOk |-> {TRUE}, maxTok |-> RaceMaxTok, scratch |-> FALSE]
Race3Scope ==
  [users |-> {"admin"}, names |-> {"a"}, vers |-> VerStrings, hasFile |-> {TRUE},
   dep |-> {TRUE}, ticks |-> {1}, extractOk |-> {TRUE}, shapes |-> {PlainShape},
   pub |-> {TRUE}, recordOk |-> {TRUE}, maxTok |-> MaxTok, scratch |-> FALSE]
RegScope ==
  [users |-> {"alice", "bob"}, names |-> {"a"}, vers |-> {"1.0.0"}, hasFile |-> {FALSE},
   dep |-> {TRUE}, ticks |-> {1}, extractOk |-> {TRUE}, shapes |-> {PlainShape},
   pub |-> BOOLEAN, recordOk |-> BOOLEAN, maxTok |-> RegMaxTok, scratch |-> FALSE]
DlScope ==
  [users |-> {"admin"}, names |-> {"a"}, vers |-> {"1.0.0"}, hasFile |-> {TRUE},
   dep |-> {TRUE}, ticks |-> {1}, extractOk |-> {TRUE}, shapes |-> {PlainShape},
   pub |-> {TRUE}, recordOk |-> {TRUE}, maxTok |-> MaxTok, scratch |-> FALSE]
\* manifests whose names differ only before normalization
SanScope ==
  [users |-> {"admin"}, names |-> {"a", "A", "a_"}, vers |-> VerStrings, hasFile |-> {TRUE},
   dep |-> {TRUE}, ticks |-> {1}, extractOk |-> {TRUE}, shapes |-> {PlainShape},
   pub |-> {TRUE}, recordOk |-> {TRUE}, maxTok |-> MaxTok, scratch |-> FALSE]
\* uploads whose archives may fail to extract, scratch directories in view
ExtractScope ==
  [users |-> {"admin"}, names |-> {"a"}, vers |-> VerStrings, hasFile |-> {TRUE},
   dep |-> {TRUE}, ticks |-> {1}, extractOk |-> BOOLEAN, shapes |-> {PlainShape},
   pub |-> {TRUE}, recordOk |-> {TRUE}, maxTok |-> MaxTok, scratch |-> TRUE]
\* two packages of up to two versions each
PromoteScope ==
  [users |-> {"admin"}, names |-> PkgNames, vers |-> VerStrings, hasFile |-> {TRUE},
   dep |-> {TRUE}, ticks |-> {1}, extractOk |-> {TRUE}, shapes |-> {PlainShape},
   pub |-> {TRUE}, recordOk |-> {TRUE}, maxTok |-> MaxTok, scratch |-> FALSE]
RaceScope ==
  [users |-> {"admin"}, names |-> {"a"}, vers |-> VerStrings, hasFile |-> {TRUE},
   dep |-> {TRUE}, ticks |-> {1}, extractOk |-> {TRUE}, shapes |-> {PlainShape, CliShape},
   pub |-> {TRUE}, recordOk |-> {TRUE}, maxTok |-> RaceMaxTok, scratch |-> FALSE]

VARIABLES
  db,       \* working content of the connection: [packages, versions, downloads]
  snap,     \* content at BEGIN while a transaction is open, else NoSnap
  inTx,     \* the connection has an open transaction
  files,    \* artifact files present in the upload directory
  req,      \* per request slot: handler, position, locals, outcome
  nextTok,  \* source of fresh ids / file names
  now       \* clock read by `new Date()`

vars == <<db, snap, inTx, files, req, nextTok, now>>

\* ids, file names and foreign keys are tokens; 0 stands for null/undefined

NoSnap == [packages |-> {}, versions |-> {}, downloads |-> {}, users |-> {}]

\* state visible to a different connection / after a crash
Committed == IF inTx THEN snap ELSE db

Idle ==
  [op |-> "idle", pc |-> "idle", user |-> "none", name |-> "none", ver |-> "none",
   tok |-> 0, hasFile |-> FALSE, fresh |-> FALSE, explicit |-> FALSE,
   pkgId |-> 0, vid |-> 0, wasLatest |-> FALSE, sel |-> 0, ts |-> 0,
   changes |-> 0, dep |-> FALSE, pub |-> FALSE, oldFile |-> 0, exLatest |-> FALSE, obsN |-> 0, obsL |-> 0, obsMid |-> FALSE,
   rows |-> {}, feed |-> {}, list |-> <<>>,
   doc |-> [latest |-> "none", versions |-> {}, time |-> {}],
   field |-> "none", fileOk |-> TRUE, tries |-> <<>>, firstErr |-> "none",
   callerRole |-> "none", target |-> "none", newRole |-> "none", status |-> 0, err |-> "none", blocked |-> 0]

Upd(p, r) == req' = [req EXCEPT ![p] = r]

\* ------------------------------------------------------------- queries
PackageByName(d, n) == {k \in d.packages : k.name = n}
VersionsOf(d, pid) == {v \in d.versions : v.packageId = pid}
VersionById(d, id) == {v \in d.versions : v.id = id}
FindByPackageAndVersion(d, pid, s) == {v \in d.versions : v.packageId = pid /\ v.version = s}
LatestOf(d, pid) == {v \in VersionsOf(d, pid) : v.isLatest}

\* role check of the version and package routes
CanEdit(u, pkg) == u = "admin" \/ pkg.authorId = u

\* Helpers.sanitizePackageName: lower-case, every run of characters outside
\* [a-z0-9] becomes one "-", leading and trailing "-" dropped; tabulated on
\* the names of the model
SanitizePackageName(n) ==
  CASE n = "A" -> "a"
    [] n = "a_" -> "a"
    [] n = "B" -> "b"
    [] OTHER -> n

\* ------------------------------------------------ request outcome helpers
\* a handler ends: the response is sent, the slot keeps the outcome
Done(r, st, e) ==
  [r EXCEPT !.pc = "done", !.status = st, !.err = e,
            !.sel = 0, !.ts = 0, !.changes = 0, !.wasLatest = FALSE, !.dep = FALSE,
            !.pub = FALSE, !.rows = {}, !.user = "none"]

\* an error escapes the handler body.  /upload wraps its body in try/catch
\* and removes req.file; POST /packages swallows it into a warning; the
\* version routes have no cleanup.
ThrowReq(r, st, e) ==
  IF r.op = "createPackage" /\ r.pc \notin {"p_find", "p_insert"}
  THEN Done(r, 201, e)
  ELSE Done(r, st, e)

ThrowFiles(r, f) == IF r.op = "upload" THEN f \ {r.tok} ELSE f

\* an artifact that stays on disk when its version row goes
UnlinkSkipped(f, path) == f

\* if (filePath && fs.existsSync(filePath)) fs.unlinkSync(filePath)
UnlinkSync(f, path) == f \ {path}

\* --------------------------------------------------------------- SQL
\* a clear that is not scoped to the package
ClearLatestEverywhere(d, pid) ==
  [d EXCEPT !.versions = {[v EXCEPT !.isLatest = FALSE] : v \in d.versions}]

\* UPDATE versions SET is_latest = 0 WHERE package_id = ?
ClearLatest(d, pid) ==
  [d EXCEPT !.versions =
     {IF v.packageId = pid THEN [v EXCEPT !.isLatest = FALSE] ELSE v : v \in d.versions}]

\* UPDATE versions SET is_latest = 1 WHERE id = ?
MarkLatest(d, id) ==
  [d EXCEPT !.versions =
     {IF v.id = id THEN [v EXCEPT !.isLatest = TRUE] ELSE v : v \in d.versions}]

\* UPDATE versions SET is_latest = 1 WHERE id = ? AND package_id = ?
MarkLatestIn(d, id, pid) ==
  [d EXCEPT !.versions =
     {IF v.id = id /\ v.packageId = pid THEN [v EXCEPT !.isLatest = TRUE] ELSE v : v \in d.versions}]

\* a delete that takes the package along with its last version
DeleteVersionRowAndEmptyPackage(d, id) ==
  LET rest == {v \in d.versions : v.id # id} IN
  [d EXCEPT !.versions = rest,
            !.packages = {k \in d.packages : \E v \in rest : v.packageId = k.id}]

\* DELETE FROM versions WHERE id = ?   (foreign keys are not enforced: the
\* connection never issues PRAGMA foreign_keys = ON)
DeleteVersionRow(d, id) == [d EXCEPT !.versions = {v \in d.versions : v.id # id}]

\* a versions table declared without its UNIQUE(package_id, version)
NoUniqueConstraint(d, pid, s) == TRUE

\* UNIQUE(package_id, version) of the versions table
UniqueVersionOk(d, pid, s) == FindByPackageAndVersion(d, pid, s) = {}

\* INSERT INTO versions ...
InsertVersionRow(d, row) == [d EXCEPT !.versions = d.versions \cup {row}]

\* SELECT * FROM versions WHERE package_id = ? ORDER BY created_at DESC LIMIT 1
\* (rows with equal created_at: any of them)
NewestOf(d, pid) ==
  {v \in VersionsOf(d, pid) : \A w \in VersionsOf(d, pid) : w.createdAt <= v.createdAt}

\* -------------------------------------- what follows a model method call
\* versionModel.create returned
AfterCreate(r) == Done(r, 201, "none")

\* versionModel.delete returned b.  /upload ignores the result and goes on
\* to versionModel.create; DELETE /versions answers 500 on false.
AfterDelete(r, b) ==
  IF r.op = "upload" THEN [r EXCEPT !.pc = "c_check"]
  ELSE IF b THEN Done(r, 200, "none") ELSE Done(r, 500, "delete_failed")

\* versionModel.setLatest returned b
AfterSetLatest(r, b) == IF b THEN Done(r, 200, "none") ELSE Done(r, 500, "set_failed")

\* ------------------------------------------------- VersionModel.create
\* findByPackageAndVersion, then the new row is built (createdAt = new Date())
VmCreateCheck(p, sc) ==
  LET r == req[p] IN
  /\ r.pc = "c_check"
  /\ IF FindByPackageAndVersion(db, r.pkgId, r.ver) # {}
     THEN /\ Upd(p, ThrowReq(r, 500, "exists"))
          /\ files' = ThrowFiles(r, files)
          /\ now' = now
     ELSE /\ \E d \in sc.ticks :
             LET t == now + d IN
               /\ now' = t
               /\ Upd(p, [r EXCEPT !.pc = "begin", !.ts = t])
          /\ files' = files
  /\ UNCHANGED <<db, snap, inTx, nextTok>>

\* positions of a request whose BEGIN succeeded and whose COMMIT/ROLLBACK is pending
TxPcs == {"clear", "insert", "set", "commit", "rollback"}

\* BEGIN TRANSACTION (create and setLatest issue it before their try block)
VmBegin(p) ==
  LET r == req[p] IN
  /\ r.pc = "begin"
  /\ IF inTx
     THEN \* "cannot start a transaction within a transaction"
          /\ Upd(p, ThrowReq([r EXCEPT !.blocked =
                                req[CHOOSE q \in Procs : req[q].pc \in TxPcs].pkgId],
                             500, "begin_rejected"))
          /\ files' = ThrowFiles(r, files)
          /\ UNCHANGED <<db, snap, inTx>>
     ELSE /\ inTx' = TRUE
          /\ snap' = db
          /\ Upd(p, [r EXCEPT !.pc = "clear"])
          /\ UNCHANGED <<db, files>>
  /\ UNCHANGED <<nextTok, now>>

\* UPDATE versions SET is_latest = 0 WHERE package_id = ?
VmClearLatest(p) ==
  LET r == req[p] IN
  /\ r.pc = "clear"
  /\ db' = ClearLatest(db, r.pkgId)
  /\ Upd(p, [r EXCEPT !.pc = IF r.op = "setLatest" THEN "set" ELSE "insert"])
  /\ UNCHANGED <<snap, inTx, files, nextTok, now>>

\* INSERT INTO versions; a UNIQUE violation rejects the statement and the
\* catch block issues ROLLBACK
VmCreateInsert(p) ==
  LET r == req[p]
      row == [id |-> r.tok, packageId |-> r.pkgId, version |-> r.ver, isLatest |-> TRUE,
              isDeprecated |-> FALSE, filePath |-> IF r.hasFile THEN r.tok ELSE 0,
              createdAt |-> r.ts]
  IN
  /\ r.pc = "insert"
  /\ IF UniqueVersionOk(db, r.pkgId, r.ver)
     THEN /\ db' = InsertVersionRow(db, row)
          /\ Upd(p, [r EXCEPT !.pc = "commit"])
     ELSE /\ db' = db
          /\ Upd(p, [r EXCEPT !.pc = "rollback", !.err = "unique"])
  /\ UNCHANGED <<snap, inTx, files, nextTok, now>>

\* UPDATE versions SET is_latest = 1 WHERE id = ? AND package_id = ?
VmSetLatestRow(p) ==
  LET r == req[p] IN
  /\ r.pc = "set"
  /\ db' = MarkLatestIn(db, r.vid, r.pkgId)
  /\ Upd(p, [r EXCEPT !.pc = "commit",
                      !.changes = Cardinality({v \in VersionById(db, r.vid) : v.packageId = r.pkgId})])
  /\ UNCHANGED <<snap, inTx, files, nextTok, now>>

\* COMMIT
VmCommit(p) ==
  LET r == req[p] IN
  /\ r.pc = "commit"
  /\ IF inTx
     THEN /\ inTx' = FALSE
          /\ snap' = NoSnap
          /\ Upd(p, IF r.op = "setLatest" THEN AfterSetLatest(r, r.changes > 0) ELSE AfterCreate(r))
     ELSE \* "cannot commit - no transaction is active"
          /\ Upd(p, [r EXCEPT !.pc = "rollback", !.err = "commit_failed"])
          /\ UNCHANGED <<snap, inTx>>
  /\ UNCHANGED <<db, files, nextTok, now>>

\* ROLLBACK in the catch block, then the error is rethrown
VmRollback(p) ==
  LET r == req[p] IN
  /\ r.pc = "rollback"
  /\ IF inTx
     THEN /\ db' = snap
          /\ inTx' = FALSE
          /\ snap' = NoSnap
     ELSE UNCHANGED <<db, snap, inTx>>
  /\ Upd(p, ThrowReq(r, 500, IF inTx THEN r.err ELSE "rollback_failed"))
  /\ files' = ThrowFiles(r, files)
  /\ UNCHANGED <<nextTok, now>>

\* ------------------------------------------------- VersionModel.delete
\* findById
VmDeleteFind(p) ==
  LET r == req[p]
      found == VersionById(db, r.vid)
  IN
  /\ r.pc = "d_find"
  /\ IF found = {}
     THEN Upd(p, AfterDelete(r, FALSE))
     ELSE LET v == CHOOSE v \in found : TRUE IN
          Upd(p, [r EXCEPT !.wasLatest = v.isLatest, !.pkgId = v.packageId,
                           !.pc = IF v.isLatest THEN "d_others" ELSE "d_delete"])
  /\ UNCHANGED <<db, snap, inTx, files, nextTok, now>>

\* findByPackageId: the latest version is not deleted while others exist
VmDeleteOthers(p) ==
  LET r == req[p] IN
  /\ r.pc = "d_others"
  /\ IF Cardinality(VersionsOf(db, r.pkgId)) > 1
     THEN /\ Upd(p, ThrowReq(r, 500, "latest_has_others"))
          /\ files' = ThrowFiles(r, files)
     ELSE /\ Upd(p, [r EXCEPT !.pc = "d_delete"])
          /\ files' = files
  /\ UNCHANGED <<db, snap, inTx, nextTok, now>>

\* DELETE FROM versions WHERE id = ?
VmDeleteRow(p) ==
  LET r == req[p]
      deleted == VersionById(db, r.vid) # {}
  IN
  /\ r.pc = "d_delete"
  /\ db' = DeleteVersionRow(db, r.vid)
  /\ Upd(p, IF deleted /\ r.wasLatest THEN [r EXCEPT !.pc = "s_select"]
            ELSE AfterDelete(r, deleted))
  /\ UNCHANGED <<snap, inTx, files, nextTok, now>>

\* setNewLatestVersion: SELECT the newest remaining row
VmSetNewSelect(p) ==
  LET r == req[p] IN
  /\ r.pc = "s_select"
  /\ IF NewestOf(db, r.pkgId) = {}
     THEN Upd(p, AfterDelete(r, TRUE))
     ELSE \E v \in NewestOf(db, r.pkgId) : Upd(p, [r EXCEPT !.pc = "s_update", !.sel = v.id])
  /\ UNCHANGED <<db, snap, inTx, files, nextTok, now>>

\* setNewLatestVersion: UPDATE versions SET is_latest = 1 WHERE id = ?
VmSetNewUpdate(p) ==
  LET r == req[p] IN
  /\ r.pc = "s_update"
  /\ db' = MarkLatest(db, r.sel)
  /\ Upd(p, AfterDelete(r, TRUE))
  /\ UNCHANGED <<snap, inTx, files, nextTok, now>>

\* ---------------------------------------- POST /api/packages/upload
\* the fresh-publish detection of the handler.  q, b, h: the fresh query
\* flag, body flag and x-piral-fresh/fresh header; urlText: the URL holds
\* "fresh" or "overwrite"; cli: User-Agent holds "piral-cli/http.node";
\* referer: Referer holds "fresh".  The route is POST .../upload, so
\* url.includes('upload') && req.method === 'POST' is true, and the later
\* "smart detection" (guarded by !fresh under the same User-Agent) is never
\* entered.
UrlIncludesUpload == TRUE
MethodIsPost == TRUE

FreshDetect(q, b, h, urlText, cli, referer) ==
  \/ q
  \/ b
  \/ h
  \/ urlText
  \/ (cli /\ (referer \/ (UrlIncludesUpload /\ MethodIsPost)))

ExplicitFresh(q, b, h) == q \/ b \/ h

\* multer stores the file under a fresh name; the handler starts
\* extractPackageInfo
UploadStart(p, sc) ==
  /\ req[p].pc = "idle"
  /\ nextTok <= sc.maxTok
  /\ \E x \in sc.shapes :
       Upd(p, [Idle EXCEPT !.op = "upload", !.pc = "u_extract", !.tok = nextTok,
                           !.hasFile = TRUE, !.user = "system",
                           !.fresh = FreshDetect(x.q, x.b, x.h, x.urlText, x.cli, x.referer),
                           !.explicit = ExplicitFresh(x.q, x.b, x.h)])
  /\ files' = files \cup {nextTok}
  /\ nextTok' = nextTok + 1
  /\ UNCHANGED <<db, snap, inTx, now>>

\* ---------------------------------------- POST /upload: the two parsers
\* multer(...).single(name) on a request whose archive sits under field:
\* the field name is checked before the file filter and the size limit
MulterSingle(name, field, fileOk) ==
  IF field # name THEN "LIMIT_UNEXPECTED_FILE"
  ELSE IF ~fileOk THEN "LIMIT_FILE_SIZE"
  ELSE "none"

\* a handler that falls back after any error of the first parser
RetryOnAnyError(err) == err # "none"

\* if (err && err.code === 'LIMIT_UNEXPECTED_FILE')
RetryUnderPackage(err) == err = "LIMIT_UNEXPECTED_FILE"

\* the request arrives with its archive under one of the field names
\* clients use; the archive is acceptable to the filter and the size limit
\* or not
MulterArrive(p, sc) ==
  /\ req[p].pc = "idle"
  /\ nextTok <= sc.maxTok
  /\ \E x \in sc.shapes, f \in {"file", "package", "pilet"}, ok \in BOOLEAN :
       Upd(p, [Idle EXCEPT !.op = "upload", !.pc = "m_file", !.tok = nextTok,
                           !.user = "system", !.field = f, !.fileOk = ok,
                           !.fresh = FreshDetect(x.q, x.b, x.h, x.urlText, x.cli, x.referer),
                           !.explicit = ExplicitFresh(x.q, x.b, x.h)])
  /\ nextTok' = nextTok + 1
  /\ UNCHANGED <<db, snap, inTx, files, now>>

\* upload(req, res, cb) with .single('file')
MulterFile(p) ==
  LET r == req[p]
      err == MulterSingle("file", r.field, r.fileOk)
      t == [r EXCEPT !.tries = Append(@, "file"), !.firstErr = err]
  IN
  /\ r.pc = "m_file"
  /\ IF err = "none"
     THEN /\ Upd(p, [t EXCEPT !.pc = "u_extract", !.hasFile = TRUE])
          /\ files' = files \cup {r.tok}
     ELSE /\ Upd(p, IF RetryUnderPackage(err) THEN [t EXCEPT !.pc = "m_package"]
                    ELSE Done(t, 500, err))
          /\ files' = files
  /\ UNCHANGED <<db, snap, inTx, nextTok, now>>

\* uploadPackage(req, res, next) with .single('package').  The first parser
\* has read the body of the request: whether the second one still receives
\* the archive is left open; without it the handler answers 'No file provided'
MulterPackage(p) ==
  LET r == req[p]
      err == MulterSingle("package", r.field, r.fileOk)
      t == [r EXCEPT !.tries = Append(@, "package")]
  IN
  /\ r.pc = "m_package"
  /\ IF err = "none"
     THEN \E received \in BOOLEAN :
            IF received
            THEN /\ Upd(p, [t EXCEPT !.pc = "u_extract", !.hasFile = TRUE])
                 /\ files' = files \cup {r.tok}
            ELSE /\ Upd(p, Done(t, 400, "no_file"))
                 /\ files' = files
     ELSE /\ Upd(p, Done(t, 500, err))
          /\ files' = files
  /\ UNCHANGED <<db, snap, inTx, nextTok, now>>

\* the scratch directory temp_<Date.now()> of the extraction a request runs,
\* kept apart from the artifacts (which carry the positive tokens)
TempDir(tok) == 0 - tok

\* what extractPackageInfo leaves in the store: every return is preceded by
\* fs.rmSync(tempDir); the catch block rethrows without it.  Specifications
\* whose scope does not look at scratch directories leave them out.
AfterExtract(f, tok, ok, sc) == IF ok \/ ~sc.scratch THEN f ELSE f \cup {TempDir(tok)}

\* extractPackageInfo returns the manifest's name and version, or throws
UploadExtract(p, sc) ==
  LET r == req[p] IN
  /\ r.pc = "u_extract"
  /\ \E ok \in sc.extractOk, n \in sc.names, s \in sc.vers :
       IF ok
       THEN /\ Upd(p, [r EXCEPT !.pc = "u_findpkg", !.name = n, !.ver = s])
            /\ files' = AfterExtract(files, r.tok, ok, sc)
       ELSE /\ Upd(p, ThrowReq(r, 500, "extract"))
            /\ files' = AfterExtract(ThrowFiles(r, files), r.tok, ok, sc)
  /\ UNCHANGED <<db, snap, inTx, nextTok, now>>

\* packageModel.findByName
UploadFindPackage(p) ==
  LET r == req[p]
      found == PackageByName(db, r.name)
  IN
  /\ r.pc = "u_findpkg"
  /\ IF found # {}
     THEN Upd(p, [r EXCEPT !.pc = "u_findver", !.pkgId = (CHOOSE k \in found : TRUE).id])
     ELSE Upd(p, [r EXCEPT !.pc = "u_createpkg"])
  /\ UNCHANGED <<db, snap, inTx, files, nextTok, now>>

\* packageModel.create: INSERT INTO packages (name is UNIQUE)
UploadCreatePackage(p) ==
  LET r == req[p]
      n == SanitizePackageName(r.name)
  IN
  /\ r.pc = "u_createpkg"
  /\ IF PackageByName(db, n) = {}
     THEN /\ db' = [db EXCEPT !.packages = @ \cup
                      {[id |-> r.tok, name |-> n, authorId |-> "system", isPublic |-> TRUE]}]
          /\ Upd(p, [r EXCEPT !.pc = "u_findver", !.pkgId = r.tok])
          /\ files' = files
     ELSE /\ db' = db
          /\ Upd(p, ThrowReq(r, 500, "unique_package"))
          /\ files' = ThrowFiles(r, files)
  /\ UNCHANGED <<snap, inTx, nextTok, now>>

\* versionModel.findByPackageAndVersion, then the conflict / fresh branch
UploadFindVersion(p) ==
  LET r == req[p]
      found == FindByPackageAndVersion(db, r.pkgId, r.ver)
  IN
  /\ r.pc = "u_findver"
  /\ IF found = {}
     THEN /\ Upd(p, [r EXCEPT !.pc = "c_check"])
          /\ files' = files
     ELSE LET v == CHOOSE v \in found : TRUE IN
          IF ~r.fresh
          THEN \* unlink the uploaded file, 409
               /\ Upd(p, ThrowReq([r EXCEPT !.vid = v.id, !.oldFile = v.filePath,
                                            !.exLatest = v.isLatest], 409, "conflict"))
               /\ files' = files \ {r.tok}
          ELSE \* unlink the old file, then versionModel.delete
               /\ Upd(p, [r EXCEPT !.pc = "d_find", !.vid = v.id, !.oldFile = v.filePath,
                                   !.exLatest = v.isLatest])
               /\ files' = UnlinkSync(files, v.filePath)
  /\ UNCHANGED <<db, snap, inTx, nextTok, now>>

\* ------------------------------------ POST /api/versions/:packageName
CreateVersionStart(p, sc) ==
  /\ req[p].pc = "idle"
  /\ nextTok <= sc.maxTok
  /\ \E u \in sc.users, n \in sc.names, s \in sc.vers, f \in sc.hasFile :
       /\ Upd(p, [Idle EXCEPT !.op = "createVersion", !.pc = "cv_findpkg", !.tok = nextTok,
                              !.user = u, !.name = n, !.ver = s, !.hasFile = f])
       /\ files' = IF f THEN files \cup {nextTok} ELSE files
  /\ nextTok' = nextTok + 1
  /\ UNCHANGED <<db, snap, inTx, now>>

\* unlink of the uploaded file on the early exits of POST /:packageName
DropOwnFile(r, f) == IF r.hasFile THEN f \ {r.tok} ELSE f

CreateVersionFindPackage(p) ==
  LET r == req[p]
      found == PackageByName(db, r.name)
  IN
  /\ r.pc = "cv_findpkg"
  /\ IF found = {}
     THEN /\ Upd(p, Done(r, 404, "no_package"))
          /\ files' = DropOwnFile(r, files)
     ELSE LET k == CHOOSE k \in found : TRUE IN
          IF ~CanEdit(r.user, k)
          THEN /\ Upd(p, Done(r, 403, "denied"))
               /\ files' = DropOwnFile(r, files)
          ELSE /\ Upd(p, [r EXCEPT !.pc = "cv_findver", !.pkgId = k.id])
               /\ files' = files
  /\ UNCHANGED <<db, snap, inTx, nextTok, now>>

CreateVersionFindVersion(p) ==
  LET r == req[p] IN
  /\ r.pc = "cv_findver"
  /\ IF FindByPackageAndVersion(db, r.pkgId, r.ver) # {}
     THEN /\ Upd(p, Done(r, 409, "conflict"))
          /\ files' = DropOwnFile(r, files)
     ELSE /\ Upd(p, [r EXCEPT !.pc = "c_check"])
          /\ files' = files
  /\ UNCHANGED <<db, snap, inTx, nextTok, now>>

\* ------------------------- shared opening of the version routes by name
\* findByName and the owner/admin check of PUT, DELETE and POST .../latest
RouteFindPackage(r, next) ==
  LET found == PackageByName(db, r.name) IN
  IF found = {} THEN Done(r, 404, "no_package")
  ELSE LET k == CHOOSE k \in found : TRUE IN
       IF ~CanEdit(r.user, k) THEN Done(r, 403, "denied")
       ELSE [r EXCEPT !.pc = next, !.pkgId = k.id]

\* ------------------------------ PUT /api/versions/:packageName/:version
UpdateVersionStart(p, sc) ==
  /\ req[p].pc = "idle"
  /\ \E u \in sc.users, n \in sc.names, s \in sc.vers, d \in sc.dep :
       Upd(p, [Idle EXCEPT !.op = "updateVersion", !.pc = "uv_findpkg",
                           !.user = u, !.name = n, !.ver = s, !.dep = d])
  /\ UNCHANGED <<db, snap, inTx, files, nextTok, now>>

UpdateVersionFindPackage(p) ==
  /\ req[p].pc = "uv_findpkg"
  /\ Upd(p, RouteFindPackage(req[p], "uv_findver"))
  /\ UNCHANGED <<db, snap, inTx, files, nextTok, now>>

UpdateVersionFindVersion(p) ==
  LET r == req[p]
      found == FindByPackageAndVersion(db, r.pkgId, r.ver)
  IN
  /\ r.pc = "uv_findver"
  /\ Upd(p, IF found = {} THEN Done(r, 404, "no_version")
            ELSE [r EXCEPT !.pc = "up_find", !.vid = (CHOOSE v \in found : TRUE).id])
  /\ UNCHANGED <<db, snap, inTx, files, nextTok, now>>

\* VersionModel.update: findById
VmUpdateFind(p) ==
  LET r == req[p] IN
  /\ r.pc = "up_find"
  /\ Upd(p, IF VersionById(db, r.vid) = {} THEN Done(r, 200, "null")
            ELSE [r EXCEPT !.pc = "up_write"])
  /\ UNCHANGED <<db, snap, inTx, files, nextTok, now>>

\* VersionModel.update: UPDATE versions SET changelog, is_deprecated, ... WHERE id = ?
VmUpdateWrite(p) ==
  LET r == req[p] IN
  /\ r.pc = "up_write"
  /\ db' = [db EXCEPT !.versions =
              {IF v.id = r.vid THEN [v EXCEPT !.isDeprecated = r.dep] ELSE v : v \in db.versions}]
  /\ Upd(p, Done(r, 200, "none"))
  /\ UNCHANGED <<snap, inTx, files, nextTok, now>>

\* --------------------------- DELETE /api/versions/:packageName/:version
DeleteVersionStart(p, sc) ==
  /\ req[p].pc = "idle"
  /\ \E u \in sc.users, n \in sc.names, s \in sc.vers :
       Upd(p, [Idle EXCEPT !.op = "deleteVersion", !.pc = "dv_findpkg",
                           !.user = u, !.name = n, !.ver = s])
  /\ UNCHANGED <<db, snap, inTx, files, nextTok, now>>

DeleteVersionFindPackage(p) ==
  /\ req[p].pc = "dv_findpkg"
  /\ Upd(p, RouteFindPackage(req[p], "dv_findver"))
  /\ UNCHANGED <<db, snap, inTx, files, nextTok, now>>

\* findByPackageAndVersion; the artifact file is unlinked before
\* versionModel.delete is called
DeleteVersionFindVersion(p) ==
  LET r == req[p]
      found == FindByPackageAndVersion(db, r.pkgId, r.ver)
  IN
  /\ r.pc = "dv_findver"
  /\ IF found = {}
     THEN /\ Upd(p, Done(r, 404, "no_version"))
          /\ files' = files
     ELSE LET v == CHOOSE v \in found : TRUE IN
          /\ Upd(p, [r EXCEPT !.pc = "d_find", !.vid = v.id, !.oldFile = v.filePath,
                              !.exLatest = v.isLatest])
          /\ files' = UnlinkSync(files, v.filePath)
  /\ UNCHANGED <<db, snap, inTx, nextTok, now>>

\* ---------------------- POST /api/versions/:packageName/:version/latest
SetLatestStart(p, sc) ==
  /\ req[p].pc = "idle"
  /\ \E u \in sc.users, n \in sc.names, s \in sc.vers :
       Upd(p, [Idle EXCEPT !.op = "setLatest", !.pc = "sl_findpkg",
                           !.user = u, !.name = n, !.ver = s])
  /\ UNCHANGED <<db, snap, inTx, files, nextTok, now>>

SetLatestFindPackage(p) ==
  /\ req[p].pc = "sl_findpkg"
  /\ Upd(p, RouteFindPackage(req[p], "sl_findver"))
  /\ UNCHANGED <<db, snap, inTx, files, nextTok, now>>

SetLatestFindVersion(p) ==
  LET r == req[p]
      found == FindByPackageAndVersion(db, r.pkgId, r.ver)
  IN
  /\ r.pc = "sl_findver"
  /\ Upd(p, IF found = {} THEN Done(r, 404, "no_version")
            ELSE [r EXCEPT !.pc = "begin", !.vid = (CHOOSE v \in found : TRUE).id])
  /\ UNCHANGED <<db, snap, inTx, files, nextTok, now>>

\* ------------------------------------------------- POST /api/packages
CreatePackageStart(p, sc) ==
  /\ req[p].pc = "idle"
  /\ nextTok <= sc.maxTok
  /\ \E u \in sc.users, n \in sc.names, f \in sc.hasFile, b \in sc.pub :
       /\ Upd(p, [Idle EXCEPT !.op = "createPackage", !.pc = "p_find", !.tok = nextTok,
                              !.user = u, !.name = n, !.hasFile = f, !.pub = b])
       /\ files' = IF f THEN files \cup {nextTok} ELSE files
  /\ nextTok' = nextTok + 1
  /\ UNCHANGED <<db, snap, inTx, now>>

\* findByName: an existing name is a 409 and the uploaded file is unlinked
CreatePackageFind(p) ==
  LET r == req[p] IN
  /\ r.pc = "p_find"
  /\ IF PackageByName(db, r.name) # {}
     THEN /\ Upd(p, Done(r, 409, "package_exists"))
          /\ files' = DropOwnFile(r, files)
     ELSE /\ Upd(p, [r EXCEPT !.pc = "p_insert"])
          /\ files' = files
  /\ UNCHANGED <<db, snap, inTx, nextTok, now>>

\* packageModel.create; with a file the handler goes on to extractPackageInfo
CreatePackageInsert(p) ==
  LET r == req[p]
      n == SanitizePackageName(r.name)
  IN
  /\ r.pc = "p_insert"
  /\ IF PackageByName(db, n) = {}
     THEN /\ db' = [db EXCEPT !.packages = @ \cup
                      {[id |-> r.tok, name |-> n, authorId |-> r.user, isPublic |-> r.pub]}]
          /\ Upd(p, IF r.hasFile THEN [r EXCEPT !.pc = "p_extract", !.pkgId = r.tok]
                    ELSE Done([r EXCEPT !.pkgId = r.tok], 201, "none"))
     ELSE /\ db' = db
          /\ Upd(p, ThrowReq(r, 500, "unique_package"))
  /\ UNCHANGED <<snap, inTx, files, nextTok, now>>

\* extractPackageInfo inside the handler's try: a failure becomes a warning
\* of the 201 response
CreatePackageExtract(p, sc) ==
  LET r == req[p] IN
  /\ r.pc = "p_extract"
  /\ \E ok \in sc.extractOk, s \in sc.vers :
       /\ Upd(p, IF ok THEN [r EXCEPT !.pc = "c_check", !.ver = s]
                 ELSE ThrowReq(r, 500, "extract"))
       /\ files' = AfterExtract(files, r.tok, ok, sc)
  /\ UNCHANGED <<db, snap, inTx, nextTok, now>>

\* ------------------------------------ GET /api/versions/:packageName
ListVersionsStart(p, sc) ==
  /\ req[p].pc = "idle"
  /\ \E u \in sc.users, n \in sc.names :
       Upd(p, [Idle EXCEPT !.op = "listVersions", !.pc = "ls_findpkg", !.user = u, !.name = n])
  /\ UNCHANGED <<db, snap, inTx, files, nextTok, now>>

\* findByName and the visibility check
ListVersionsFindPackage(p) ==
  LET r == req[p]
      found == PackageByName(db, r.name)
  IN
  /\ r.pc = "ls_findpkg"
  /\ Upd(p, IF found = {} THEN Done(r, 404, "no_package")
            ELSE LET k == CHOOSE k \in found : TRUE IN
                 IF ~k.isPublic /\ ~CanEdit(r.user, k) THEN Done(r, 404, "no_package")
                 ELSE [r EXCEPT !.pc = "ls_versions", !.pkgId = k.id])
  /\ UNCHANGED <<db, snap, inTx, files, nextTok, now>>

\* versionModel.findByPackageId: the rows as the connection holds them now
ListVersionsRead(p) ==
  LET r == req[p] IN
  /\ r.pc = "ls_versions"
  /\ Upd(p, Done([r EXCEPT !.obsN = Cardinality(VersionsOf(db, r.pkgId)),
                           !.obsL = Cardinality(LatestOf(db, r.pkgId)),
                           !.obsMid = \E q \in Procs : /\ q # p
                                                        /\ req[q].pc \in {"insert", "set"}
                                                        /\ req[q].pkgId = r.pkgId],
                  200, "none"))
  /\ UNCHANGED <<db, snap, inTx, files, nextTok, now>>

\* ------------------------------------------- package rows and visibility
PackageById(d, id) == {k \in d.packages : k.id = id}
DownloadsOfPackage(d, pid) == {x \in d.downloads : x.packageId = pid}

\* the visibility check of the read routes:
\* !pkg.isPublic && (!req.user || (role !== 'admin' && authorId !== user.id))
\* hides the package; "anon" is a request without a user
Visible(u, k) == k.isPublic \/ (u # "anon" /\ CanEdit(u, k))

\* the connection is opened without PRAGMA foreign_keys = ON, so the
\* ON DELETE CASCADE clauses of versions and downloads are not enforced
ForeignKeysOn == FALSE

\* DELETE FROM packages WHERE id = ?
DeletePackageRow(d, id) ==
  IF ForeignKeysOn
  THEN [packages |-> {k \in d.packages : k.id # id},
        versions |-> {v \in d.versions : v.packageId # id},
        downloads |-> {x \in d.downloads : x.packageId # id},
        users |-> d.users]
  ELSE [d EXCEPT !.packages = {k \in d.packages : k.id # id}]

\* --------------------------------------------- DELETE /api/packages/:name
DeletePackageStart(p, sc) ==
  /\ req[p].pc = "idle"
  /\ \E u \in sc.users, n \in sc.names :
       Upd(p, [Idle EXCEPT !.op = "deletePackage", !.pc = "dp_findpkg", !.user = u, !.name = n])
  /\ UNCHANGED <<db, snap, inTx, files, nextTok, now>>

DeletePackageFindPackage(p) ==
  /\ req[p].pc = "dp_findpkg"
  /\ Upd(p, RouteFindPackage(req[p], "pd_find"))
  /\ UNCHANGED <<db, snap, inTx, files, nextTok, now>>

\* PackageModel.delete: findById
PmDeleteFind(p) ==
  LET r == req[p] IN
  /\ r.pc = "pd_find"
  /\ Upd(p, IF PackageById(db, r.pkgId) = {} THEN Done(r, 500, "delete_failed")
            ELSE [r EXCEPT !.pc = "pd_delete"])
  /\ UNCHANGED <<db, snap, inTx, files, nextTok, now>>

\* PackageModel.delete: DELETE FROM packages WHERE id = ?
PmDeleteRow(p) ==
  LET r == req[p] IN
  /\ r.pc = "pd_delete"
  /\ db' = DeletePackageRow(db, r.pkgId)
  /\ Upd(p, IF PackageById(db, r.pkgId) # {} THEN Done(r, 200, "none")
            ELSE Done(r, 500, "delete_failed"))
  /\ UNCHANGED <<snap, inTx, files, nextTok, now>>

\* ------------------------------------------------ PUT /api/packages/:name
\* the body's isPublic is written as is_public (an omitted flag is written
\* as 0, like false)
UpdatePackageStart(p, sc) ==
  /\ req[p].pc = "idle"
  /\ \E u \in sc.users, n \in sc.names, b \in sc.pub :
       Upd(p, [Idle EXCEPT !.op = "updatePackage", !.pc = "pp_findpkg", !.user = u,
                           !.name = n, !.pub = b])
  /\ UNCHANGED <<db, snap, inTx, files, nextTok, now>>

UpdatePackageFindPackage(p) ==
  /\ req[p].pc = "pp_findpkg"
  /\ Upd(p, RouteFindPackage(req[p], "pu_find"))
  /\ UNCHANGED <<db, snap, inTx, files, nextTok, now>>

\* PackageModel.update: findById
PmUpdateFind(p) ==
  LET r == req[p] IN
  /\ r.pc = "pu_find"
  /\ Upd(p, IF PackageById(db, r.pkgId) = {} THEN Done(r, 200, "null")
            ELSE [r EXCEPT !.pc = "pu_write"])
  /\ UNCHANGED <<db, snap, inTx, files, nextTok, now>>

\* PackageModel.update: UPDATE packages SET description, is_public, updated_at
PmUpdateWrite(p) ==
  LET r == req[p] IN
  /\ r.pc = "pu_write"
  /\ db' = [db EXCEPT !.packages =
              {IF k.id = r.pkgId THEN [k EXCEPT !.isPublic = r.pub] ELSE k : k \in db.packages}]
  /\ Upd(p, Done(r, 200, "none"))
  /\ UNCHANGED <<snap, inTx, files, nextTok, now>>

\* --------------- GET /api/versions/:packageName/:version/download
\* the id of the download record is drawn when the request arrives
DownloadStart(p, sc) ==
  /\ req[p].pc = "idle"
  /\ nextTok <= sc.maxTok
  /\ \E u \in sc.users, n \in sc.names, s \in sc.vers :
       Upd(p, [Idle EXCEPT !.op = "download", !.pc = "dl_findpkg", !.tok = nextTok,
                           !.user = u, !.name = n, !.ver = s])
  /\ nextTok' = nextTok + 1
  /\ UNCHANGED <<db, snap, inTx, files, now>>

\* findByName and the visibility check
ReadFindPackage(r, next) ==
  LET found == PackageByName(db, r.name) IN
  IF found = {} THEN Done(r, 404, "no_package")
  ELSE LET k == CHOOSE k \in found : TRUE IN
       IF ~Visible(r.user, k) THEN Done(r, 404, "no_package")
       ELSE [r EXCEPT !.pc = next, !.pkgId = k.id]

DownloadFindPackage(p) ==
  /\ req[p].pc = "dl_findpkg"
  /\ Upd(p, ReadFindPackage(req[p], "dl_findver"))
  /\ UNCHANGED <<db, snap, inTx, files, nextTok, now>>

\* findByPackageAndVersion, then filePath && fs.existsSync(filePath)
DownloadFindVersion(p) ==
  LET r == req[p]
      found == FindByPackageAndVersion(db, r.pkgId, r.ver)
  IN
  /\ r.pc = "dl_findver"
  /\ Upd(p, IF found = {} THEN Done(r, 404, "no_version")
            ELSE LET v == CHOOSE v \in found : TRUE IN
                 IF v.filePath = 0 \/ v.filePath \notin files THEN Done(r, 404, "no_file")
                 ELSE [r EXCEPT !.pc = "dl_record", !.vid = v.id, !.oldFile = v.filePath])
  /\ UNCHANGED <<db, snap, inTx, files, nextTok, now>>

\* INSERT INTO downloads
InsertDownloadRow(d, row) == [d EXCEPT !.downloads = d.downloads \cup {row}]

\* await downloadModel.create(...), outside any try; then res.sendFile, which
\* fails when the file is gone by now
DownloadRecord(p, sc) ==
  LET r == req[p]
      row == [id |-> r.tok, versionId |-> r.vid, packageId |-> r.pkgId, version |-> r.ver]
  IN
  /\ r.pc = "dl_record"
  /\ \E ok \in sc.recordOk :
       IF ok
       THEN /\ db' = InsertDownloadRow(db, row)
            /\ Upd(p, IF r.oldFile \in files THEN Done(r, 200, "none")
                      ELSE Done(r, 500, "send_failed"))
       ELSE /\ db' = db
            /\ Upd(p, Done(r, 500, "record_failed"))
  /\ UNCHANGED <<snap, inTx, files, nextTok, now>>

\* ------------------------- GET /api/feed/stats/downloads?package=<name>
StatsDownloadsStart(p, sc) ==
  /\ req[p].pc = "idle"
  /\ \E u \in sc.users, n \in sc.names :
       Upd(p, [Idle EXCEPT !.op = "statsDownloads", !.pc = "sd_findpkg", !.user = u, !.name = n])
  /\ UNCHANGED <<db, snap, inTx, files, nextTok, now>>

\* findByName; the route has no visibility check
StatsDownloadsFindPackage(p) ==
  LET r == req[p]
      found == PackageByName(db, r.name)
  IN
  /\ r.pc = "sd_findpkg"
  /\ Upd(p, IF found = {} THEN Done(r, 404, "no_package")
            ELSE [r EXCEPT !.pc = "sd_read", !.pkgId = (CHOOSE k \in found : TRUE).id])
  /\ UNCHANGED <<db, snap, inTx, files, nextTok, now>>

\* downloadModel.getPackageVersionDownloadCounts
StatsDownloadsRead(p) ==
  LET r == req[p] IN
  /\ r.pc = "sd_read"
  /\ Upd(p, Done([r EXCEPT !.obsN = Cardinality(DownloadsOfPackage(db, r.pkgId))], 200, "none"))
  /\ UNCHANGED <<db, snap, inTx, files, nextTok, now>>

\* ------------------------------------------------ GET /api/feed/pilets
\* page size the compact feed passes to packageModel.findAll
FeedLimit == 100

\* the ways to leave m rows out of a set of rows
RECURSIVE DropSets(_, _)
DropSets(rows, m) ==
  IF m = 0 THEN {{}}
  ELSE UNION {{D \cup {k} : D \in DropSets(rows \ {k}, m - 1)} : k \in rows}

\* PackageModel.findAll(limit, 0, {isPublic}): SELECT * FROM packages WHERE
\* is_public = ? ORDER BY updated_at DESC LIMIT ?.  The rows of the model
\* carry no updated_at, so which rows fall behind the limit is left open.
FindAll(d, limit, isPublic) ==
  LET rows == {k \in d.packages : k.isPublic = isPublic}
      n == Cardinality(rows)
  IN IF n <= limit THEN {rows}
     ELSE {rows \ D : D \in DropSets(rows, n - limit)}

\* findByPackageId returns the rows ORDER BY created_at DESC;
\* getLatestVersion: versions.find(v => v.isLatest) || versions[0] || null
\* (rows equal in created_at: the first of them is the one CHOOSE fixes)
FirstByCreatedDesc(S) == CHOOSE v \in S : \A w \in S : w.createdAt <= v.createdAt

GetLatestVersion(rows) ==
  IF {v \in rows : v.isLatest} # {} THEN {FirstByCreatedDesc({v \in rows : v.isLatest})}
  ELSE IF rows # {} THEN {FirstByCreatedDesc(rows)}
  ELSE {}

\* latestVersion?.version || '0.0.0'
VersionOrZero(found) == IF found = {} THEN "0.0.0" ELSE (CHOOSE v \in found : TRUE).version

CompactFeedStart(p) ==
  /\ req[p].pc = "idle"
  /\ Upd(p, [Idle EXCEPT !.op = "compactFeed", !.pc = "cf_findall", !.user = "anon"])
  /\ UNCHANGED <<db, snap, inTx, files, nextTok, now>>

\* packageModel.findAll(100, 0, { isPublic: true })
CompactFeedFindAll(p) ==
  LET r == req[p] IN
  /\ r.pc = "cf_findall"
  /\ \E R \in FindAll(db, FeedLimit, TRUE) : Upd(p, [r EXCEPT !.pc = "cf_read", !.rows = R])
  /\ UNCHANGED <<db, snap, inTx, files, nextTok, now>>

\* Promise.all over the packages: findByPackageId and getLatestVersion for
\* each, all issued in the same tick
CompactFeedRead(p) ==
  LET r == req[p] IN
  /\ r.pc = "cf_read"
  /\ Upd(p, Done([r EXCEPT !.feed =
                    {[name |-> k.name,
                      version |-> VersionOrZero(GetLatestVersion(VersionsOf(db, k.id)))]
                       : k \in r.rows}],
                 200, "none"))
  /\ UNCHANGED <<db, snap, inTx, files, nextTok, now>>

\* ------------------------------------------------- Helpers.compareVersions
\* version strings the registry can hold: the upload takes the version of
\* package.json as it is, the create routes accept /^\d+\.\d+\.\d+(-.+)?$/
SemverStrings ==
  {"1.0.0", "1.1.0", "1.2.3", "1.2.4", "1.9.9", "1.10.0", "2.0.0",
   "1.0.0-alpha", "1.0.0-alpha.1", "1.0.0-beta", "1.0.0-1",
   "v1.0.0", "1.0.0+build", "01.0.0", "1.0"}

\* a prerelease identifier: numeric, or alphanumeric with its rank in the
\* ASCII order of the identifiers used ("alpha" < "beta")
NumId(n) == [num |-> TRUE, val |-> n]
AlphaId(rank) == [num |-> FALSE, val |-> rank]

SemVer(maj, min, pat, pre) == [valid |-> TRUE, main |-> <<maj, min, pat>>, prerelease |-> pre]

\* new SemVer(version): the strict pattern v?MAJOR.MINOR.PATCH(-PRERELEASE)?(+BUILD)?
\* without leading zeros; the build part is parsed and then ignored
SemverParse(s) ==
  CASE s = "1.0.0" -> SemVer(1, 0, 0, <<>>)
    [] s = "1.1.0" -> SemVer(1, 1, 0, <<>>)
    [] s = "1.2.3" -> SemVer(1, 2, 3, <<>>)
    [] s = "1.2.4" -> SemVer(1, 2, 4, <<>>)
    [] s = "1.9.9" -> SemVer(1, 9, 9, <<>>)
    [] s = "1.10.0" -> SemVer(1, 10, 0, <<>>)
    [] s = "2.0.0" -> SemVer(2, 0, 0, <<>>)
    [] s = "1.0.0-alpha" -> SemVer(1, 0, 0, <<AlphaId(1)>>)
    [] s = "1.0.0-alpha.1" -> SemVer(1, 0, 0, <<AlphaId(1), NumId(1)>>)
    [] s = "1.0.0-beta" -> SemVer(1, 0, 0, <<AlphaId(2)>>)
    [] s = "1.0.0-1" -> SemVer(1, 0, 0, <<NumId(1)>>)
    [] s = "v1.0.0" -> SemVer(1, 0, 0, <<>>)
    [] s = "1.0.0+build" -> SemVer(1, 0, 0, <<>>)
    [] OTHER -> [valid |-> FALSE, main |-> <<0, 0, 0>>, prerelease |-> <<>>]

SemverValid(s) == SemverParse(s).valid

Sign(a, b) == IF a < b THEN -1 ELSE IF a > b THEN 1 ELSE 0

\* compareIdentifiers: numbers by value, a number below any alphanumeric
\* identifier, alphanumeric identifiers in ASCII order
CompareIdentifiers(a, b) ==
  IF a.num /\ ~b.num THEN -1
  ELSE IF b.num /\ ~a.num THEN 1
  ELSE Sign(a.val, b.val)

CompareMain(x, y) ==
  IF x.main[1] # y.main[1] THEN Sign(x.main[1], y.main[1])
  ELSE IF x.main[2] # y.main[2] THEN Sign(x.main[2], y.main[2])
  ELSE Sign(x.main[3], y.main[3])

RECURSIVE ComparePreFrom(_, _, _)
ComparePreFrom(a, b, i) ==
  IF i > Len(a) /\ i > Len(b) THEN 0
  ELSE IF i > Len(b) THEN 1
  ELSE IF i > Len(a) THEN -1
  ELSE IF a[i] = b[i] THEN ComparePreFrom(a, b, i + 1)
  ELSE CompareIdentifiers(a[i], b[i])

\* a version with a prerelease sorts below the same version without one
ComparePre(x, y) ==
  IF x.prerelease # <<>> /\ y.prerelease = <<>> THEN -1
  ELSE IF x.prerelease = <<>> /\ y.prerelease # <<>> THEN 1
  ELSE ComparePreFrom(x.prerelease, y.prerelease, 1)

\* semver.compare(version1, version2) of two valid versions; an invalid
\* one makes the SemVer constructor throw a TypeError
CompareVersions(version1, version2) ==
  LET x == SemverParse(version1)
      y == SemverParse(version2)
  IN IF CompareMain(x, y) # 0 THEN CompareMain(x, y) ELSE ComparePre(x, y)

\* ------------------------------------------------------ GET /api/feed/:name
RECURSIVE ByCreatedDesc(_)
ByCreatedDesc(S) ==
  IF S = {} THEN <<>>
  ELSE LET v == FirstByCreatedDesc(S) IN <<v.version>> \o ByCreatedDesc(S \ {v})

\* Array.prototype.sort is stable: x goes behind every element the
\* comparator does not put after it
InsertSorted(sorted, x) ==
  LET after == {j \in 1..Len(sorted) : CompareVersions(x, sorted[j]) > 0}
      k == IF after = {} THEN Len(sorted) + 1
           ELSE CHOOSE j \in after : \A m \in after : j <= m
  IN SubSeq(sorted, 1, k - 1) \o <<x>> \o SubSeq(sorted, k, Len(sorted))

RECURSIVE SortFeedVersions(_)
SortFeedVersions(seq) ==
  IF seq = <<>> THEN <<>>
  ELSE InsertSorted(SortFeedVersions(SubSeq(seq, 1, Len(seq) - 1)), seq[Len(seq)])

DetailedFeedStart(p) ==
  /\ req[p].pc = "idle"
  /\ \E n \in PkgNames :
       Upd(p, [Idle EXCEPT !.op = "detailedFeed", !.pc = "df_findpkg", !.user = "anon",
                           !.name = n])
  /\ UNCHANGED <<db, snap, inTx, files, nextTok, now>>

DetailedFeedFindPackage(p) ==
  /\ req[p].pc = "df_findpkg"
  /\ Upd(p, ReadFindPackage(req[p], "df_versions"))
  /\ UNCHANGED <<db, snap, inTx, files, nextTok, now>>

\* versionModel.findByPackageId(pkg.id)
DetailedFeedVersions(p) ==
  LET r == req[p] IN
  /\ r.pc = "df_versions"
  /\ Upd(p, [r EXCEPT !.pc = "df_stats", !.list = ByCreatedDesc(VersionsOf(db, r.pkgId))])
  /\ UNCHANGED <<db, snap, inTx, files, nextTok, now>>

\* getDownloadStats, then the sort of the versions read before; the sort
\* of two or more elements hands every element to the comparator
DetailedFeedSort(p) ==
  LET r == req[p] IN
  /\ r.pc = "df_stats"
  /\ Upd(p, IF Len(r.list) >= 2 /\ \E i \in 1..Len(r.list) : ~SemverValid(r.list[i])
            THEN Done(r, 500, "TypeError")
            ELSE Done([r EXCEPT !.list = SortFeedVersions(r.list)], 200, "none"))
  /\ UNCHANGED <<db, snap, inTx, files, nextTok, now>>

\* -------------------------------------------------- GET /api/feed/:name/npm
NpmStart(p, sc) ==
  /\ req[p].pc = "idle"
  /\ \E n \in sc.names :
       Upd(p, [Idle EXCEPT !.op = "npm", !.pc = "npm_findpkg", !.user = "anon", !.name = n])
  /\ UNCHANGED <<db, snap, inTx, files, nextTok, now>>

NpmFindPackage(p) ==
  /\ req[p].pc = "npm_findpkg"
  /\ Upd(p, ReadFindPackage(req[p], "npm_versions"))
  /\ UNCHANGED <<db, snap, inTx, files, nextTok, now>>

\* the document built from the rows findByPackageId returned: dist-tags,
\* the keys of versions, and the keys of time (created, modified and one
\* per row)
NpmMetadata(rows) ==
  [latest |-> VersionOrZero(GetLatestVersion(rows)),
   versions |-> {v.version : v \in rows},
   time |-> {"created", "modified"} \cup {v.version : v \in rows}]

\* versionModel.findByPackageId(pkg.id): what the document says about the
\* versions is fixed by this read
NpmVersions(p) ==
  LET r == req[p] IN
  /\ r.pc = "npm_versions"
  /\ Upd(p, [r EXCEPT !.pc = "npm_stats", !.doc = NpmMetadata(VersionsOf(db, r.pkgId))])
  /\ UNCHANGED <<db, snap, inTx, files, nextTok, now>>

\* getDownloadStats, then res.json(npmMetadata)
NpmRespond(p) ==
  LET r == req[p] IN
  /\ r.pc = "npm_stats"
  /\ Upd(p, Done(r, 200, "none"))
  /\ UNCHANGED <<db, snap, inTx, files, nextTok, now>>

\* ------------------------------------------------ /api/auth/users (admin)
\* authorize(allowedRoles)(req, res, () => {}) called inside the handler:
\* the status it sends, 0 if it calls its (empty) next.  It does not throw,
\* so the handler goes on after it.
Authorize(allowedRoles, role) == IF role \in allowedRoles THEN 0 ELSE 403

\* the first response sent is the one the client gets; a later res.json or
\* error response finds the headers sent
FirstSent(sent, st) == IF sent # 0 THEN sent ELSE st

UserAdminStart(p) ==
  /\ req[p].pc = "idle"
  /\ \E o \in {"listUsers", "deleteUser", "setUserRole"}, u \in {"admin", "alice", "bob"},
        t \in {"admin", "alice", "bob"}, nr \in {"admin", "user"} :
       Upd(p, [Idle EXCEPT !.op = o, !.pc = "ua_auth", !.user = u, !.target = t,
                           !.newRole = nr])
  /\ UNCHANGED <<db, snap, inTx, files, nextTok, now>>

\* the auth middleware: userModel.findById(decoded.userId), then, in the
\* handler, authorize and the checks up to the first await
UserAdminAuth(p) ==
  LET r == req[p]
      found == {x \in db.users : x.id = r.user}
      role == (CHOOSE x \in found : TRUE).role
      sent == Authorize({"admin"}, role)
      t == [r EXCEPT !.callerRole = role, !.status = sent]
  IN
  /\ r.pc = "ua_auth"
  /\ Upd(p, IF found = {} THEN Done(r, 401, "no_user")
            ELSE IF r.op = "listUsers" THEN [t EXCEPT !.pc = "ua_list"]
            ELSE IF r.target = r.user THEN Done(t, FirstSent(sent, 400), "self")
            ELSE [t EXCEPT !.pc = IF r.op = "deleteUser" THEN "ua_delete" ELSE "ua_find"])
  /\ UNCHANGED <<db, snap, inTx, files, nextTok, now>>

\* userModel.findAll and getCount, then res.json(users)
UserAdminList(p) ==
  LET r == req[p] IN
  /\ r.pc = "ua_list"
  /\ Upd(p, Done([r EXCEPT !.obsN = IF r.status = 0 THEN Cardinality(db.users) ELSE 0],
                 FirstSent(r.status, 200), "none"))
  /\ UNCHANGED <<db, snap, inTx, files, nextTok, now>>

\* userModel.delete: DELETE FROM users WHERE id = ?
UserAdminDelete(p) ==
  LET r == req[p]
      deleted == \E x \in db.users : x.id = r.target
  IN
  /\ r.pc = "ua_delete"
  /\ db' = [db EXCEPT !.users = {x \in @ : x.id # r.target}]
  /\ Upd(p, Done(r, FirstSent(r.status, IF deleted THEN 200 ELSE 404), "none"))
  /\ UNCHANGED <<snap, inTx, files, nextTok, now>>

\* userModel.update: findById
UserAdminFind(p) ==
  LET r == req[p] IN
  /\ r.pc = "ua_find"
  /\ Upd(p, IF \E x \in db.users : x.id = r.target THEN [r EXCEPT !.pc = "ua_write"]
            ELSE Done(r, FirstSent(r.status, 404), "no_user"))
  /\ UNCHANGED <<db, snap, inTx, files, nextTok, now>>

\* userModel.update: UPDATE users SET ..., role = ? WHERE id = ?
UserAdminWrite(p) ==
  LET r == req[p] IN
  /\ r.pc = "ua_write"
  /\ db' = [db EXCEPT !.users =
              {IF x.id = r.target THEN [x EXCEPT !.role = r.newRole] ELSE x : x \in @}]
  /\ Upd(p, Done(r, FirstSent(r.status, 200), "none"))
  /\ UNCHANGED <<snap, inTx, files, nextTok, now>>

\* ------------------------------------------------------------ response
\* the response is written and the request is over
Respond(p) ==
  /\ req[p].pc = "done"
  /\ Upd(p, Idle)
  /\ UNCHANGED <<db, snap, inTx, files, nextTok, now>>

\* ----------------------------------------------------------------- spec
\* the users table after the seed (the admin) and two registrations
RegisteredUsers ==
  {[id |-> "admin", role |-> "admin"], [id |-> "alice", role |-> "user"],
   [id |-> "bob", role |-> "user"]}

Init ==
  /\ db = [packages |-> {}, versions |-> {}, downloads |-> {}, users |-> RegisteredUsers]
  /\ snap = NoSnap
  /\ inTx = FALSE
  /\ files = {}
  /\ req = [p \in Procs |-> Idle]
  /\ nextTok = 1
  /\ now = 0

\* ---------------------------------------------------------- next-state
VersionModelSteps(p, sc) ==
  \/ VmCreateCheck(p, sc) \/ VmBegin(p) \/ VmClearLatest(p) \/ VmCreateInsert(p)
  \/ VmSetLatestRow(p) \/ VmCommit(p)
  \/ VmDeleteFind(p) \/ VmDeleteOthers(p) \/ VmDeleteRow(p) \/ VmSetNewSelect(p)
  \/ VmUpdateFind(p) \/ VmUpdateWrite(p)

UploadSteps(p, sc) ==
  \/ UploadStart(p, sc) \/ UploadExtract(p, sc) \/ UploadFindPackage(p)
  \/ UploadCreatePackage(p) \/ UploadFindVersion(p)

VersionRouteSteps(p, sc) ==
  \/ CreateVersionStart(p, sc) \/ CreateVersionFindPackage(p) \/ CreateVersionFindVersion(p)
  \/ UpdateVersionStart(p, sc) \/ UpdateVersionFindPackage(p) \/ UpdateVersionFindVersion(p)
  \/ DeleteVersionStart(p, sc) \/ DeleteVersionFindPackage(p) \/ DeleteVersionFindVersion(p)
  \/ SetLatestStart(p, sc) \/ SetLatestFindPackage(p) \/ SetLatestFindVersion(p)
  \/ ListVersionsStart(p, sc) \/ ListVersionsFindPackage(p) \/ ListVersionsRead(p)

PackageRouteSteps(p, sc) ==
  \/ CreatePackageStart(p, sc) \/ CreatePackageFind(p) \/ CreatePackageInsert(p)
  \/ CreatePackageExtract(p, sc)

\* one request at a time: only slot 1 is ever used.  Without a concurrent
\* request ROLLBACK and the UPDATE of setNewLatestVersion are never reached.
SeqNext ==
  \E p \in {1} :
    \/ UploadSteps(p, FullScope) \/ VersionRouteSteps(p, FullScope)
    \/ PackageRouteSteps(p, FullScope) \/ VersionModelSteps(p, FullScope)
    \/ Respond(p)

SeqSpec == Init /\ [][SeqNext]_vars

\* requests on every slot, interleaved at each await
Next ==
  \E p \in Procs :
    \/ UploadSteps(p, RaceScope) \/ VersionRouteSteps(p, RaceScope)
    \/ VersionModelSteps(p, RaceScope) \/ VmRollback(p) \/ VmSetNewUpdate(p)
    \/ Respond(p)

Spec == Init /\ [][Next]_vars

\* writers of two packages side by side: uploads and promotions
PkgsNext ==
  \E p \in Procs :
    \/ UploadSteps(p, PkgsScope)
    \/ SetLatestStart(p, PkgsScope) \/ SetLatestFindPackage(p) \/ SetLatestFindVersion(p)
    \/ VmCreateCheck(p, PkgsScope) \/ VmBegin(p) \/ VmClearLatest(p) \/ VmCreateInsert(p)
    \/ VmSetLatestRow(p) \/ VmCommit(p)
    \/ Respond(p)

PkgsSpec == Init /\ [][PkgsNext]_vars

\* uploads and version deletes of one package, three uploads deep
Race3Next ==
  \E p \in Procs :
    \/ UploadSteps(p, Race3Scope)
    \/ DeleteVersionStart(p, Race3Scope) \/ DeleteVersionFindPackage(p)
    \/ DeleteVersionFindVersion(p)
    \/ VmCreateCheck(p, Race3Scope) \/ VmBegin(p) \/ VmClearLatest(p) \/ VmCreateInsert(p)
    \/ VmCommit(p) \/ VmRollback(p)
    \/ VmDeleteFind(p) \/ VmDeleteOthers(p) \/ VmDeleteRow(p)
    \/ VmSetNewSelect(p) \/ VmSetNewUpdate(p)
    \/ Respond(p)

Race3Spec == Init /\ [][Race3Next]_vars

\* one request at a time over the whole life of a package: created, made
\* private or public, published to, downloaded, deleted
RegNext ==
  \E p \in {1} :
    \/ UploadSteps(p, RegScope)
    \/ VmCreateCheck(p, RegScope) \/ VmBegin(p) \/ VmClearLatest(p) \/ VmCreateInsert(p)
    \/ VmCommit(p)
    \/ CreatePackageStart(p, RegScope) \/ CreatePackageFind(p) \/ CreatePackageInsert(p)
    \/ UpdatePackageStart(p, RegScope) \/ UpdatePackageFindPackage(p)
    \/ PmUpdateFind(p) \/ PmUpdateWrite(p)
    \/ DeletePackageStart(p, RegScope) \/ DeletePackageFindPackage(p)
    \/ PmDeleteFind(p) \/ PmDeleteRow(p)
    \/ DownloadStart(p, RegScope) \/ DownloadFindPackage(p) \/ DownloadFindVersion(p)
    \/ DownloadRecord(p, RegScope)
    \/ StatsDownloadsStart(p, RegScope) \/ StatsDownloadsFindPackage(p)
    \/ StatsDownloadsRead(p)
    \/ Respond(p)

RegSpec == Init /\ [][RegNext]_vars

\* downloads of a version next to its upload and its delete
DlNext ==
  \E p \in Procs :
    \/ UploadSteps(p, DlScope)
    \/ VmCreateCheck(p, DlScope) \/ VmBegin(p) \/ VmClearLatest(p) \/ VmCreateInsert(p)
    \/ VmCommit(p) \/ VmRollback(p)
    \/ DeleteVersionStart(p, DlScope) \/ DeleteVersionFindPackage(p)
    \/ DeleteVersionFindVersion(p)
    \/ VmDeleteFind(p) \/ VmDeleteOthers(p) \/ VmDeleteRow(p) \/ VmSetNewSelect(p)
    \/ DownloadStart(p, DlScope) \/ DownloadFindPackage(p) \/ DownloadFindVersion(p)
    \/ DownloadRecord(p, DlScope)
    \/ Respond(p)

DlSpec == Init /\ [][DlNext]_vars

\* an admin deleting packages that uploads have filled, one request at a time
PurgeNext ==
  \E p \in {1} :
    \/ UploadSteps(p, Race3Scope)
    \/ VmCreateCheck(p, Race3Scope) \/ VmBegin(p) \/ VmClearLatest(p) \/ VmCreateInsert(p)
    \/ VmCommit(p)
    \/ DeletePackageStart(p, Race3Scope) \/ DeletePackageFindPackage(p)
    \/ PmDeleteFind(p) \/ PmDeleteRow(p)
    \/ Respond(p)

PurgeSpec == Init /\ [][PurgeNext]_vars

\* the admin operations on users, one request at a time
UserAdminNext ==
  \E p \in {1} :
    \/ UserAdminStart(p) \/ UserAdminAuth(p) \/ UserAdminList(p) \/ UserAdminDelete(p)
    \/ UserAdminFind(p) \/ UserAdminWrite(p)
    \/ Respond(p)

UserAdminSpec == Init /\ [][UserAdminNext]_vars

\* promotions next to uploads, two packages of up to two versions
PromoteNext ==
  \E p \in Procs :
    \/ UploadSteps(p, PromoteScope)
    \/ SetLatestStart(p, PromoteScope) \/ SetLatestFindPackage(p) \/ SetLatestFindVersion(p)
    \/ VmCreateCheck(p, PromoteScope) \/ VmBegin(p) \/ VmClearLatest(p) \/ VmCreateInsert(p)
    \/ VmSetLatestRow(p) \/ VmCommit(p) \/ VmRollback(p)
    \/ Respond(p)

PromoteSpec == Init /\ [][PromoteNext]_vars

\* uploads of good and of corrupt archives, one request at a time
ExtractNext ==
  \E p \in {1} :
    \/ UploadSteps(p, ExtractScope)
    \/ VmCreateCheck(p, ExtractScope) \/ VmBegin(p) \/ VmClearLatest(p) \/ VmCreateInsert(p)
    \/ VmCommit(p)
    \/ Respond(p)

ExtractSpec == Init /\ [][ExtractNext]_vars

\* uploads of manifests with un-normalized names, one request at a time
SanNext ==
  \E p \in {1} :
    \/ UploadSteps(p, SanScope)
    \/ VmCreateCheck(p, SanScope) \/ VmBegin(p) \/ VmClearLatest(p) \/ VmCreateInsert(p)
    \/ VmCommit(p)
    \/ Respond(p)

SanSpec == Init /\ [][SanNext]_vars

\* uploads entered through the two parsers, one request at a time
MulterNext ==
  \E p \in {1} :
    \/ MulterArrive(p, FullScope) \/ MulterFile(p) \/ MulterPackage(p)
    \/ UploadExtract(p, FullScope) \/ UploadFindPackage(p) \/ UploadCreatePackage(p)
    \/ UploadFindVersion(p)
    \/ VmCreateCheck(p, FullScope) \/ VmBegin(p) \/ VmClearLatest(p) \/ VmCreateInsert(p)
    \/ VmCommit(p)
    \/ VmDeleteFind(p) \/ VmDeleteOthers(p) \/ VmDeleteRow(p)
    \/ Respond(p)

MulterSpec == Init /\ [][MulterNext]_vars

\* the metadata document read next to uploads and promotions
NpmNext ==
  \E p \in Procs :
    \/ UploadSteps(p, Race3Scope)
    \/ VmCreateCheck(p, Race3Scope) \/ VmBegin(p) \/ VmClearLatest(p) \/ VmCreateInsert(p)
    \/ VmSetLatestRow(p) \/ VmCommit(p) \/ VmRollback(p)
    \/ SetLatestStart(p, Race3Scope) \/ SetLatestFindPackage(p) \/ SetLatestFindVersion(p)
    \/ NpmStart(p, Race3Scope) \/ NpmFindPackage(p) \/ NpmVersions(p) \/ NpmRespond(p)
    \/ Respond(p)

NpmSpec == Init /\ [][NpmNext]_vars

\* the compact feed over registries of up to MaxFeedPkgs packages, the
\* first few of them private, each with one version flagged latest
FeedRegistry(n, k) ==
  [packages |-> {[id |-> i, name |-> ToString(i), authorId |-> "system", isPublic |-> i > k]
                   : i \in 1..n},
   versions |-> {[id |-> i, packageId |-> i, version |-> IF i % 2 = 0 THEN "1.0.0" ELSE "1.1.0",
                  isLatest |-> TRUE, isDeprecated |-> FALSE, filePath |-> i, createdAt |-> i]
                   : i \in 1..n},
   downloads |-> {}, users |-> RegisteredUsers]

FeedInit ==
  /\ \E n \in 0..MaxFeedPkgs, k \in 0..MaxPrivatePkgs :
       /\ k <= n
       /\ n - k <= FeedLimit + 1
       /\ db = FeedRegistry(n, k)
       /\ files = 1..n
       /\ nextTok = n + 1
       /\ now = n
  /\ snap = NoSnap
  /\ inTx = FALSE
  /\ req = [p \in Procs |-> Idle]

FeedNext ==
  \E p \in {1} :
    \/ CompactFeedStart(p) \/ CompactFeedFindAll(p) \/ CompactFeedRead(p)
    \/ Respond(p)

FeedSpec == FeedInit /\ [][FeedNext]_vars

\* the detailed feed over one public package holding up to MaxFeedVers
\* versions, created in any order, the newest flagged latest
VersionLedger(n, f) ==
  [packages |-> {[id |-> MaxFeedVers + 1, name |-> "a", authorId |-> "alice", isPublic |-> TRUE]},
   versions |-> {[id |-> i, packageId |-> MaxFeedVers + 1, version |-> f[i],
                  isLatest |-> i = n, isDeprecated |-> FALSE, filePath |-> i, createdAt |-> i]
                   : i \in 1..n},
   downloads |-> {}, users |-> RegisteredUsers]

SemverInit ==
  /\ \E n \in 0..MaxFeedVers : \E f \in [1..n -> SemverStrings] :
       /\ \A i, j \in 1..n : f[i] = f[j] => i = j
       /\ db = VersionLedger(n, f)
       /\ files = 1..n
  /\ nextTok = MaxFeedVers + 2
  /\ now = MaxFeedVers
  /\ snap = NoSnap
  /\ inTx = FALSE
  /\ req = [p \in Procs |-> Idle]

SemverNext ==
  \E p \in {1} :
    \/ DetailedFeedStart(p) \/ DetailedFeedFindPackage(p)
    \/ DetailedFeedVersions(p) \/ DetailedFeedSort(p)
    \/ Respond(p)

SemverSpec == SemverInit /\ [][SemverNext]_vars

\* ================================================================ claims
Creators == {"upload", "createVersion", "createPackage"}

\* C1: for every package, in every committed state, the number of its
\* versions flagged latest is 0 if it has no versions and exactly 1 otherwise.
C1_SingleLatest ==
  \A k \in Committed.packages :
    Cardinality(LatestOf(Committed, k.id)) =
      IF VersionsOf(Committed, k.id) = {} THEN 0 ELSE 1

\* C2: a delete of the version flagged latest, while the package has another
\* version, succeeds and leaves exactly the newest remaining version latest.
C2_DeleteLatestPromotes ==
  \A p \in Procs :
    LET r == req[p]
        others == {v \in VersionsOf(db, r.pkgId) : v.id # r.vid}
    IN (r.op = "deleteVersion" /\ r.pc = "done" /\ r.exLatest /\ others # {})
       => /\ r.status = 200
          /\ VersionById(db, r.vid) = {}
          /\ Cardinality(LatestOf(db, r.pkgId)) = 1
          /\ LatestOf(db, r.pkgId) \subseteq NewestOf(db, r.pkgId)

\* C3: a fresh-publish upload of an existing version that is flagged latest
\* succeeds and the re-created version is flagged latest.
C3_FreshKeepsLatest ==
  \A p \in Procs :
    LET r == req[p] IN
    (r.op = "upload" /\ r.pc = "done" /\ r.explicit /\ r.vid # 0 /\ r.exLatest)
    => /\ r.status = 201
       /\ \E v \in VersionById(db, r.tok) : v.isLatest /\ v.version = r.ver

\* C4: a second upload of P@V without fresh-publish intent gets 409 and the
\* stored version row and its artifact file are unchanged.
C4_DuplicateConflict ==
  \A p \in Procs :
    LET r == req[p] IN
    (r.op = "upload" /\ r.pc = "done" /\ ~r.explicit /\ r.vid # 0)
    => /\ r.status = 409
       /\ VersionById(db, r.vid) # {}
       /\ (r.oldFile # 0 => r.oldFile \in files)

\* C5: when createVersion commits V2 on a package that has other versions,
\* the committed state has V2 flagged latest and no other version of the
\* package flagged latest.
C5_CreateCommitsSingleLatest ==
  [][\A p \in Procs :
       (req[p].pc = "commit" /\ req[p].op \in Creators /\ req'[p].pc = "done"
        /\ req'[p].status = 201 /\ VersionById(db', req[p].tok) # {}
        /\ \E w \in VersionsOf(db', req[p].pkgId) : w.id # req[p].tok)
       => /\ ~inTx'
          /\ \A v \in VersionsOf(db', req[p].pkgId) : v.isLatest <=> v.id = req[p].tok]_vars

\* C6: no two version rows share (packageId, version), in the working and in
\* the committed state, also under concurrent creates; a create for an
\* existing pair fails and leaves no row of its own.
UniqueIn(d) ==
  \A v, w \in d.versions : (v.packageId = w.packageId /\ v.version = w.version) => v = w

C6_UniqueVersion ==
  /\ UniqueIn(db)
  /\ UniqueIn(Committed)
  /\ \A p \in Procs :
       (req[p].pc = "done" /\ req[p].op \in Creators
        /\ req[p].err \in {"exists", "unique", "conflict"})
       => VersionById(db, req[p].tok) = {}

\* two creates of the same pair raced and the INSERT of the second was refused
C6_Witness ==
  \E p \in Procs : req[p].pc = "done" /\ req[p].err = "unique"
                   /\ FindByPackageAndVersion(db, req[p].pkgId, req[p].ver) # {}

\* C7: a version listing read while another request is between its clear
\* step and its insert/set step never sees versions with none flagged latest.
C7_ReaderSeesLatest ==
  \A p \in Procs :
    (req[p].op = "listVersions" /\ req[p].pc = "done" /\ req[p].obsMid)
    => ~(req[p].obsN >= 1 /\ req[p].obsL = 0)

\* C8: a createVersion or setLatest is never rejected because a mutation of
\* a different package is in progress.
C8_OtherPackageNoReject ==
  \A p \in Procs :
    (req[p].pc = "done" /\ req[p].err = "begin_rejected") => req[p].blocked = req[p].pkgId

\* C9: fresh publish is all-or-nothing: after a failed one the previous row
\* and its artifact are still there; after a successful one exactly the new
\* row and the new artifact are there for that version.
C9_FreshAllOrNothing ==
  \A p \in Procs :
    LET r == req[p] IN
    (r.op = "upload" /\ r.pc = "done" /\ r.explicit /\ r.vid # 0)
    => IF r.status = 201
       THEN /\ FindByPackageAndVersion(db, r.pkgId, r.ver)
                 = {v \in db.versions : v.id = r.tok}
            /\ VersionById(db, r.tok) # {}
            /\ r.tok \in files
            /\ r.oldFile \notin files
       ELSE /\ VersionById(db, r.vid) # {}
            /\ (r.oldFile # 0 => r.oldFile \in files)

\* C10: after an upload request that ends without a version of its own, the
\* file written for that request is no longer on disk.
C10_NoLeakedUpload ==
  \A p \in Procs :
    LET r == req[p] IN
    (r.op \in Creators /\ r.pc = "done" /\ r.hasFile /\ VersionById(db, r.tok) = {})
    => r.tok \notin files

\* C11: after a package delete has succeeded, no version row and no download
\* row refers to the id of the deleted package.
C11_PackageDeleteCascades ==
  \A p \in Procs :
    LET r == req[p] IN
    (r.op = "deletePackage" /\ r.pc = "done" /\ r.status = 200)
    => /\ VersionsOf(db, r.pkgId) = {}
       /\ DownloadsOfPackage(db, r.pkgId) = {}

C13_OnlyVersionDeleteKeepsPackage ==
  [][\A p \in Procs :
       LET r == req[p] IN
       (r.op = "deleteVersion" /\ r.pc = "d_delete" /\ req'[p] # r
        /\ VersionById(db, r.vid) # {}
        /\ VersionsOf(db, r.pkgId) = VersionById(db, r.vid))
       => /\ db'.packages = db.packages
          /\ PackageById(db', r.pkgId) # {}
          /\ VersionsOf(db', r.pkgId) = {}
          /\ LatestOf(db', r.pkgId) = {}]_vars

\* a version delete has succeeded and its package is left without versions
C13_Witness ==
  \E p \in Procs :
    /\ req[p].op = "deleteVersion" /\ req[p].pc = "done" /\ req[p].status = 200
    /\ VersionsOf(db, req[p].pkgId) = {}
    /\ PackageById(db, req[p].pkgId) # {}

\* C14: a step of a mutating request whose caller is neither the owner of
\* the named package nor an admin changes no row of the store and removes
\* no stored artifact file.
Mutators ==
  {"upload", "createVersion", "updateVersion", "deleteVersion", "setLatest",
   "updatePackage", "deletePackage"}

C14_DeniedCallerNoChange ==
  [][\A p \in Procs :
       LET r == req[p]
           K == PackageByName(db, r.name)
       IN (req'[p] # r /\ r.op \in Mutators /\ K # {} /\ \A k \in K : ~CanEdit(r.user, k))
          => /\ db' = db
             /\ \A v \in db.versions : v.filePath \in files => v.filePath \in files']_vars

\* C15: a read request for a private package by a caller who is neither its
\* owner nor an admin ends with 404 and has read nothing of the package.
ReadOps == {"listVersions", "download", "statsDownloads"}

C15_PrivateHidden ==
  [][\A p \in Procs :
       LET r == req[p]
           K == PackageByName(db, r.name)
       IN (r.op \in ReadOps /\ r.pc # "done" /\ req'[p].pc = "done"
           /\ K # {} /\ \A k \in K : ~Visible(r.user, k))
          => /\ req'[p].status = 404
             /\ req'[p].pkgId = 0]_vars

\* C16: an upload that meets an existing version is processed as a fresh
\* publish (it goes on to replace the version instead of answering 409) if
\* and only if it carries the fresh flag in query, body or header.
C16_FreshIffExplicit ==
  \A p \in Procs :
    (req[p].op = "upload" /\ req[p].vid # 0)
    => (req[p].explicit <=> req[p].status # 409)

\* C17: a finished download request has appended exactly one download
\* record if it started to stream the artifact (200) and none otherwise.
C17_OneRecordPerStream ==
  \A p \in Procs :
    (req[p].op = "download" /\ req[p].pc = "done")
    => Cardinality({x \in db.downloads : x.id = req[p].tok})
         = IF req[p].status = 200 THEN 1 ELSE 0

\* C18: a download whose record could not be appended still delivers the
\* artifact: it does not end with an error response.
C18_RecordFailureStillDelivers ==
  \A p \in Procs :
    (req[p].op = "download" /\ req[p].pc = "done" /\ req[p].err = "record_failed")
    => req[p].status = 200

\* C19: the compact feed holds exactly one entry for each public package, no
\* entry for a private package, and each entry carries the version string of
\* the row flagged latest of its package.
C19_CompactFeedComplete ==
  \A p \in Procs :
    LET r == req[p]
        pubs == {k \in db.packages : k.isPublic}
    IN (r.op = "compactFeed" /\ r.pc = "done")
       => /\ {e.name : e \in r.feed} = {k.name : k \in pubs}
          /\ Cardinality(r.feed) = Cardinality(pubs)
          /\ \A e \in r.feed : \A k \in PackageByName(db, e.name) :
               \A v \in LatestOf(db, k.id) : e.version = v.version

\* C20: the detailed feed of a visible package answers with all versions of
\* the package, each once, in strictly descending semantic precedence
\* whatever the creation order; the comparator is antisymmetric and gives 0
\* only for equal version strings.
C20_DetailedFeedStrictlyDescending ==
  \A p \in Procs :
    LET r == req[p]
        all == {v.version : v \in VersionsOf(db, r.pkgId)}
    IN (r.op = "detailedFeed" /\ r.pc = "done" /\ r.err # "no_package")
       => /\ r.status = 200
          /\ Len(r.list) = Cardinality(all)
          /\ {r.list[i] : i \in 1..Len(r.list)} = all
          /\ \A i \in 1..(Len(r.list) - 1) : CompareVersions(r.list[i], r.list[i + 1]) = 1
          /\ \A a, b \in all : a # b =>
               /\ SemverValid(a) /\ SemverValid(b)
               /\ CompareVersions(a, b) = 0 - CompareVersions(b, a)
               /\ (CompareVersions(a, b) = 0 => a = b)

\* C21: the registry-compatible metadata document of a package has one
\* entry in its versions map and one in its time map for each version row of
\* the package and no entry for anything else, and its dist-tags.latest is
\* the version string of the row flagged latest.
C21_NpmDocumentMatchesRows ==
  [][\A p \in Procs :
       (req[p].pc = "npm_versions" /\ req'[p].pc = "npm_stats")
       => LET rows == VersionsOf(Committed, req[p].pkgId)
              doc == req'[p].doc
          IN /\ doc.versions = {v.version : v \in rows}
             /\ doc.time \ {"created", "modified"} = {v.version : v \in rows}
             /\ \A v \in rows : v.isLatest => doc.latest = v.version]_vars

\* C22: an upload is parsed under 'file' first; it is parsed under 'package'
\* only if the first attempt failed with the unexpected-field error; any
\* other error of the first attempt ends the request with no second attempt;
\* there is never more than one fallback attempt.
C22_SingleFallback ==
  \A p \in Procs :
    LET r == req[p] IN
    /\ r.tries \in {<<>>, <<"file">>, <<"file", "package">>}
    /\ Len(r.tries) = 2 => r.firstErr = "LIMIT_UNEXPECTED_FILE"
    /\ (r.firstErr \notin {"none", "LIMIT_UNEXPECTED_FILE"} /\ r.pc = "done")
         => r.tries = <<"file">> /\ r.status >= 400

\* an upload sent under 'package' that the fallback parsed and the
\* handler stored as a version
C22_Witness ==
  \E p \in Procs :
    /\ req[p].tries = <<"file", "package">> /\ req[p].pc = "done" /\ req[p].status = 201
    /\ \E v \in db.versions : v.id = req[p].tok

\* C23: whatever uploads came before, an upload whose manifest name
\* normalizes to the name of an existing package does not try to create a
\* second package: it ends without a uniqueness failure, one package row
\* carries the normalized name, and a stored version belongs to that row.
C23_FindOrCreateNormalized ==
  \A p \in Procs :
    LET r == req[p]
        rows == PackageByName(db, SanitizePackageName(r.name))
    IN (r.op = "upload" /\ r.pc = "done")
       => /\ r.err # "unique_package"
          /\ Cardinality(rows) = 1
          /\ \A v \in VersionById(db, r.tok) : \E k \in rows : v.packageId = k.id

\* C24: when a package delete succeeds, none of the artifact files its
\* versions referenced is left on disk.
C24_PackageDeleteRemovesFiles ==
  [][\A p \in Procs :
       (req[p].op = "deletePackage" /\ req[p].pc # "done" /\ req'[p].pc = "done"
        /\ req'[p].status = 200)
       => \A v \in VersionsOf(db, req[p].pkgId) : v.filePath \notin files']_vars

\* C25: after every call of the metadata extractor, returned or thrown, the
\* scratch directory the call created does not exist.
C25_NoScratchDirectoryLeft ==
  \A p \in Procs :
    (req[p].op = "upload" /\ req[p].pc \notin {"idle", "u_extract"})
    => TempDir(req[p].tok) \notin files

C27_FailedPromoteChangesNothing ==
  [][\A p \in Procs :
       (req[p].op = "setLatest" /\ req[p].pc = "commit" /\ req'[p].pc = "done"
        /\ req'[p].err = "set_failed")
       => \A v \in VersionsOf(db', req[p].pkgId) : \A w \in snap.versions :
            v.id = w.id => v.isLatest = w.isLatest]_vars

\* C28: a version delete that ends in an error has changed nothing: the row
\* it targeted is still there and the artifact file the row references is
\* still on disk.
C28_FailedDeleteChangesNothing ==
  \A p \in Procs :
    LET r == req[p] IN
    (r.op = "deleteVersion" /\ r.pc = "done" /\ r.status >= 400 /\ r.vid # 0)
    => /\ VersionById(db, r.vid) # {}
       /\ \A v \in VersionById(db, r.vid) : v.filePath # 0 => v.filePath \in files

\* C29: a ROLLBACK issued by one request undoes no write another request
\* made outside any transaction of its own: every package row and download
\* record present before the ROLLBACK is present after it, and no version
\* loses or regains its deprecation (the rolling-back request, a version
\* create or a promotion, writes none of these itself).
C29_RollbackUndoesOnlyOwnWrites ==
  [][\A p \in Procs :
       (req[p].pc = "rollback" /\ req'[p].pc = "done" /\ inTx)
       => /\ db.packages \subseteq db'.packages
          /\ db.downloads \subseteq db'.downloads
          /\ \A v \in db.versions : \A w \in db'.versions :
               v.id = w.id => v.isDeprecated = w.isDeprecated]_vars

\* C30: a list-users, delete-user or change-role request of an authenticated
\* caller who is not an admin changes no user row and returns no user data.
C30_NonAdminUserOpsNoEffect ==
  [][\A p \in Procs :
       (req[p].op \in {"listUsers", "deleteUser", "setUserRole"}
        /\ req[p].callerRole = "user" /\ req'[p] # req[p])
       => db'.users = db.users /\ req'[p].obsN = 0]_vars

====
